---- MODULE Spec2Model ----
(***************************************************************************)
(* Model of bot.py: one invocation of main() after another, sharing the    *)
(* state file state.json and the messaging server's update queue.          *)
(*                                                                         *)
(* Python values are modelled as records [t, n, s]: t is the Python type   *)
(* ("absent" for a missing dict key, "null" for None, "int", "str"), n the *)
(* integer value, s the characters of a string.  Strings are sequences of  *)
(* one-character strings so that str(), int(), isdigit(), strip() and      *)
(* lower() are computed, not assumed.                                      *)
(*                                                                         *)
(* Specifications: Spec (invocations one after another, any state file),   *)
(* SpecFresh (the same from an absent state file), SpecSchedule            *)
(* (invocations every Interval minutes from the start of the heartbeat     *)
(* window), SpecOffsets (a server that returns any batch), SpecBatch (one  *)
(* command pass over any inbox), SpecScrape (one check of one page).       *)
(***************************************************************************)
EXTENDS Integers, Sequences, FiniteSets, TLC

\* ------------------------------------------------------------- bounds
MaxRuns == 2          \* invocations of main() in one behaviour
MaxUpdates == 1       \* inbound updates the server receives over the invocations
MaxInputs == 2        \* date inputs on the slot page
MaxBatch == 2         \* updates the server holds when one command pass starts
Interval == 5         \* minutes from one scheduled invocation to the next

\* ------------------------------------------------------ configuration
MY_CURRENT_APPOINTMENT == 20260210
HEARTBEAT_HOUR == 9
HEARTBEAT_WINDOW_MINUTES == 10

\* -------------------------------------------------------- Python values
Absent == [t |-> "absent", n |-> 0, s |-> <<>>]
PyNone == [t |-> "null", n |-> 0, s |-> <<>>]
PyInt(i) == [t |-> "int", n |-> i, s |-> <<>>]
PyString(chars) == [t |-> "str", n |-> 0, s |-> chars]

DigitChars == <<"0", "1", "2", "3", "4", "5", "6", "7", "8", "9">>

RECURSIVE NatToStr(_)
NatToStr(i) ==
    IF i < 10 THEN <<DigitChars[i + 1]>>
    ELSE NatToStr(i \div 10) \o <<DigitChars[(i % 10) + 1]>>

\* str(i) of a Python int
IntToStr(i) == IF i < 0 THEN <<"-">> \o NatToStr(-i) ELSE NatToStr(i)

\* str(v): str(None) is "None", str of a string is the string itself
PyStr(v) ==
    CASE v.t = "int" -> IntToStr(v.n)
      [] v.t = "str" -> v.s
      [] OTHER -> <<"N", "o", "n", "e">>

\* dict.get(key, default): the default only when the key is missing
Get(v, default) == IF v.t = "absent" THEN default ELSE v

\* dict.get(key): None when the key is missing
GetOrNone(v) == Get(v, PyNone)

\* a == b of two Python values (an int never equals a str)
PyEq(a, b) == a.t = b.t /\ a.n = b.n /\ a.s = b.s

\* value of one decimal digit character
DigitValue(c) == (CHOOSE k \in 1..10 : DigitChars[k] = c) - 1

IsAsciiDigit(c) == \E k \in 1..10 : DigitChars[k] = c

\* str.isdigit(): non-empty and every character a Unicode digit; the
\* superscript two is such a digit although int() rejects it
IsDigitStr(chars) ==
    /\ Len(chars) > 0
    /\ \A k \in 1..Len(chars) : IsAsciiDigit(chars[k]) \/ chars[k] = "^2"

\* int(chars) succeeds on a digit string only when every digit is decimal
IntParses(chars) ==
    Len(chars) > 0 /\ \A k \in 1..Len(chars) : IsAsciiDigit(chars[k])

RECURSIVE StrToNat(_)
StrToNat(chars) ==
    IF Len(chars) = 0 THEN 0
    ELSE StrToNat(SubSeq(chars, 1, Len(chars) - 1)) * 10
         + DigitValue(chars[Len(chars)])

\* ------------------------------------------------ Appointment scraper
\* dates the site can offer: two before the threshold, the threshold itself
Dates == {MY_CURRENT_APPOINTMENT - 2, MY_CURRENT_APPOINTMENT - 1, MY_CURRENT_APPOINTMENT}

\* value attributes a date input can carry: none, empty, non-numeric, a
\* digit string int() rejects, or a date
PageValues ==
    {PyNone, PyString(<<>>), PyString(<<"a">>), PyString(<<"^2">>)}
        \cup {PyString(IntToStr(d)) : d \in Dates}

SeqsUpTo(S, n) == UNION {[1..k -> S] : k \in 0..n}

\* what the browser and the site do during one check: the first step that
\* fails (if any) and the date inputs of the slot page
Scenarios ==
    {[fail |-> f, values |-> <<>>] :
        f \in {"launch", "new_page", "navigate", "no_form"}}
        \cup {[fail |-> "none", values |-> vs] :
                 vs \in SeqsUpTo(PageValues, MaxInputs)}

\* the values the loop of lines 92-95 tries to parse
Candidates(values) ==
    {k \in 1..Len(values) : values[k].t = "str" /\ IsDigitStr(values[k].s)}

\* found_dates after the loop (when no int() raised)
FoundDates(values) == {StrToNat(values[k].s) : k \in Candidates(values)}

SetMin(S) == CHOOSE x \in S : \A y \in S : x <= y

Raised(launched, closed) ==
    [out |-> "raise", n |-> 0, launched |-> launched, closed |-> closed]
NoneResult == [out |-> "none", n |-> 0, launched |-> TRUE, closed |-> TRUE]
DateResult(d) == [out |-> "date", n |-> d, launched |-> TRUE, closed |-> TRUE]

\* check_for_appointments(): launch and new_page lie outside the try block
CheckForAppointments(sc) ==
    CASE sc.fail = "launch" -> Raised(FALSE, FALSE)
      [] sc.fail = "new_page" -> Raised(TRUE, FALSE)
      [] sc.fail = "navigate" -> NoneResult
      [] sc.fail = "no_form" -> NoneResult
      [] OTHER ->
           IF \E k \in Candidates(sc.values) : ~IntParses(sc.values[k].s)
           THEN NoneResult
           ELSE IF FoundDates(sc.values) = {} THEN NoneResult
           ELSE DateResult(SetMin(FoundDates(sc.values)))

\* everything one call of check_for_appointments() can come to
ScrapeResults == {CheckForAppointments(sc) : sc \in Scenarios}

\* ------------------------------------------------------- State store
\* the state file: missing, unreadable, JSON that is no object, or an object
\* with the three fields (each possibly missing or of any JSON type)
FileOf(kind, ping, upd, notified) ==
    [kind |-> kind, last_ping_date |-> ping, last_update_id |-> upd,
     last_notified_earliest |-> notified]

EmptyDict == FileOf("dict", Absent, Absent, Absent)
AbsentFile == FileOf("absent", Absent, Absent, Absent)
CorruptFile == FileOf("corrupt", Absent, Absent, Absent)
NonObjectFile == FileOf("nonobject", Absent, Absent, Absent)

\* load_state(): any exception of open/json.load gives {}; valid JSON is
\* returned whatever its type
LoadState(f) == IF f.kind \in {"absent", "corrupt"} THEN EmptyDict ELSE f

\* ------------------------------------------------------------- clock
TwoDigits(k) == IF k < 10 THEN <<"0">> \o NatToStr(k) ELSE NatToStr(k)

\* now.date().isoformat() of the k-th day of the model's month
IsoFormat(day) ==
    <<"2", "0", "2", "6", "-", "1", "1", "-">> \o TwoDigits(day)

\* the local calendar days the clock runs through
Days == {1, 2}

\* local times an invocation can read on a day: before the heartbeat hour,
\* at its start, and at the first minute past the window
Times ==
    {[day |-> d, hour |-> HEARTBEAT_HOUR - 1, minute |-> 0] : d \in Days}
        \cup {[day |-> d, hour |-> HEARTBEAT_HOUR, minute |-> 0] : d \in Days}
        \cup {[day |-> d, hour |-> HEARTBEAT_HOUR,
                minute |-> HEARTBEAT_WINDOW_MINUTES] : d \in Days}

TimeKey(tm) == (tm.day * 24 + tm.hour) * 60 + tm.minute

\* the window test with its bound included
InWindow_Inclusive(tm) ==
    tm.hour = HEARTBEAT_HOUR /\ tm.minute <= HEARTBEAT_WINDOW_MINUTES

\* line 125
InWindow(tm) ==
    tm.hour = HEARTBEAT_HOUR /\ tm.minute < HEARTBEAT_WINDOW_MINUTES

\* ----------------------------------------------------- inbound text
UpperChars ==
    <<"A", "B", "C", "D", "E", "F", "G", "H", "I", "J", "K", "L", "M",
      "N", "O", "P", "Q", "R", "S", "T", "U", "V", "W", "X", "Y", "Z">>
LowerChars ==
    <<"a", "b", "c", "d", "e", "f", "g", "h", "i", "j", "k", "l", "m",
      "n", "o", "p", "q", "r", "s", "t", "u", "v", "w", "x", "y", "z">>

LowerChar(c) ==
    IF \E k \in 1..26 : UpperChars[k] = c
    THEN LowerChars[CHOOSE k \in 1..26 : UpperChars[k] = c]
    ELSE c

\* str.lower()
Lower(chars) == [k \in 1..Len(chars) |-> LowerChar(chars[k])]

RECURSIVE LStrip(_)
LStrip(chars) ==
    IF Len(chars) > 0 /\ Head(chars) = " " THEN LStrip(Tail(chars)) ELSE chars

RECURSIVE RStrip(_)
RStrip(chars) ==
    IF Len(chars) > 0 /\ chars[Len(chars)] = " "
    THEN RStrip(SubSeq(chars, 1, Len(chars) - 1))
    ELSE chars

\* str.strip()
Strip(chars) == RStrip(LStrip(chars))

\* (msg.get("text") or "").strip()
TextOf(v) == IF v.t = "str" THEN Strip(v.s) ELSE <<>>

StartCommands == {<<"/", "s", "t", "a", "r", "t">>, <<"s", "t", "a", "r", "t">>}
CheckCommands ==
    {<<"/", "c", "h", "e", "c", "k">>, <<"c", "h", "e", "c", "k">>,
     <<"/", "s", "t", "a", "t", "u", "s">>, <<"s", "t", "a", "t", "u", "s">>}

\* what an inbound update can look like (its id is given on arrival):
\* no message at all, a message without chat, and messages with a chat id
\* and an optional text
UpdateShapes ==
    {[msg |-> "none", chat |-> 0, text |-> Absent],
     [msg |-> "nochat", chat |-> 0, text |-> PyString(<<"h", "i">>)],
     [msg |-> "ok", chat |-> 1, text |-> Absent],
     [msg |-> "ok", chat |-> 1, text |-> PyString(<<" ">>)],
     [msg |-> "ok", chat |-> 1, text |-> PyString(<<"/", "S", "t", "a", "r", "t">>)],
     [msg |-> "ok", chat |-> 2,
      text |-> PyString(<<" ", "/", "C", "h", "e", "c", "k", " ">>)],
     [msg |-> "ok", chat |-> 1, text |-> PyString(<<"s", "t", "a", "t", "u", "s">>)],
     [msg |-> "ok", chat |-> 2, text |-> PyString(<<"h", "e", "l", "l", "o">>)]}

\* the updates that arrive between invocations: one for each way the loop
\* treats an update (raising, skipped, answered, answered after a check)
InboundShapes ==
    {sh \in UpdateShapes :
        \/ sh.msg = "nochat"
        \/ sh.text \in {PyString(<<"h", "e", "l", "l", "o">>),
                        PyString(<<"/", "S", "t", "a", "r", "t">>),
                        PyString(<<" ", "/", "C", "h", "e", "c", "k", " ">>)}}

UpdateOf(id, shape) ==
    [update_id |-> id, msg |-> shape.msg, chat |-> shape.chat, text |-> shape.text]

Max(a, b) == IF a >= b THEN a ELSE b

\* every order in which the server may list the updates of S
Orderings(S) ==
    {q \in [1..Cardinality(S) -> S] :
        \A i, j \in 1..Cardinality(S) : i # j => q[i] # q[j]}

\* ------------------------------------------------------------- state
VARIABLES
    BOT_TOKEN,          \* configuration: the bot credential ("" when unset)
    DEFAULT_CHAT_ID,    \* configuration: the default recipient ("" when unset)
    file,               \* contents of state.json
    inbox,              \* updates the messaging server holds, not yet confirmed
    nextId,             \* update id the server gives the next inbound update
    now,                \* local time last read from the clock
    pc,                 \* position of the current invocation of main()
    state,              \* main's state dict
    poll,               \* what getUpdates did in this invocation
    updates,            \* rest of the batch process_incoming_commands loops over
    max_update_id,      \* local of process_incoming_commands
    earliest,           \* result of main's own check_for_appointments()
    sent,               \* sendMessage requests of this invocation, in order
    scrapes,            \* calls of check_for_appointments() in this invocation
    leaked,             \* a browser was launched and never closed
    abort,              \* what made this invocation raise ("" while it has not)
    runs,               \* one summary per invocation so far
    scenario,           \* the page a check is examined on (SpecScrape only)
    persisted           \* last_update_id the latest completed save_state wrote

vars ==
    <<BOT_TOKEN, DEFAULT_CHAT_ID, file, inbox, nextId, now, pc, state,
      poll, updates, max_update_id, earliest, sent, scrapes, leaked, abort, runs,
      scenario, persisted>>

config == <<BOT_TOKEN, DEFAULT_CHAT_ID>>

Unloaded == FileOf("unloaded", Absent, Absent, Absent)
NoResult == [out |-> "unset", n |-> 0, launched |-> FALSE, closed |-> FALSE]

\* Spec and SpecBatch choose the outcome of each check among ScrapeResults
\* and do not follow one page
AnyPage == [fail |-> "none", values |-> <<>>]

\* state files a first invocation can meet: none, JSON that is no object,
\* a record of earlier invocations, and a record with fields of other types
InitFiles ==
    {AbsentFile, NonObjectFile,
     FileOf("dict", PyString(IsoFormat(1)), PyInt(0),
            PyInt(MY_CURRENT_APPOINTMENT - 1)),
     FileOf("dict", PyInt(1), PyString(<<"7">>),
            PyString(IntToStr(MY_CURRENT_APPOINTMENT - 1)))}

Init ==
    /\ BOT_TOKEN \in {<<>>, <<"t">>}
    /\ DEFAULT_CHAT_ID \in {<<>>, <<"1">>}
    /\ file \in InitFiles
    /\ inbox = {}
    /\ nextId = 1
    /\ now = [day |-> 1, hour |-> HEARTBEAT_HOUR - 1, minute |-> 0]
    /\ pc = "idle"
    /\ state = Unloaded
    /\ poll = "none"
    /\ updates = <<>>
    /\ max_update_id = 0
    /\ earliest = NoResult
    /\ sent = <<>>
    /\ scrapes = 0
    /\ leaked = FALSE
    /\ abort = ""
    /\ runs = <<>>
    /\ scenario = AnyPage
    /\ persisted = file.last_update_id

\* ------------------------------------------------------------ Notifier
Message(kind, to, re, date, note) ==
    [kind |-> kind, to |-> to, re |-> re, date |-> date, note |-> note]

\* send_telegram(chat_id, text): the sendMessage requests it makes (none
\* for an empty chat_id).  Whether tg_api returns or raises, send_telegram
\* catches, logs and returns None, so the program's state is the same: the
\* log keeps the request.
SendTelegram(chat_id, m) == IF chat_id = <<>> THEN <<>> ELSE <<m>>

\* ------------------------------------------------- run bookkeeping
\* hb: the day this invocation sent a heartbeat for (0: none); cmds: the
\* update ids it dispatched as commands
RunStarted == [hb |-> 0, cmds |-> {}]

ThisRun == Len(runs)

\* the invocation raises: nothing after the raising statement runs
Raise(why) ==
    /\ pc' = "aborted"
    /\ abort' = why
    /\ UNCHANGED runs

\* ------------------------------------------------------- Orchestrator
\* the credential never tested
MissingCredential_Unchecked(token) == FALSE

\* line 187: not BOT_TOKEN
MissingCredential(token) == token = <<>>

\* main, lines 187-190: the credential check and load_state()
StartRun ==
    /\ pc \in {"idle", "done", "aborted"}
    /\ Len(runs) < MaxRuns
    /\ poll' = "none"
    /\ updates' = <<>>
    /\ max_update_id' = 0
    /\ earliest' = NoResult
    /\ sent' = <<>>
    /\ scrapes' = 0
    /\ leaked' = FALSE
    /\ IF MissingCredential(BOT_TOKEN)
       THEN /\ pc' = "aborted"
            /\ abort' = "credential"
            /\ runs' = Append(runs, RunStarted)
            /\ state' = Unloaded
       ELSE /\ pc' = "commands"
            /\ abort' = ""
            /\ runs' = Append(runs, RunStarted)
            /\ state' = LoadState(file)
    /\ UNCHANGED <<config, scenario, persisted, file, inbox, nextId, now>>

\* the messaging server receives an inbound update between invocations
Arrive ==
    /\ pc \in {"idle", "done", "aborted"}
    /\ nextId <= MaxUpdates
    /\ \E shape \in InboundShapes : inbox' = inbox \cup {UpdateOf(nextId, shape)}
    /\ nextId' = nextId + 1
    /\ UNCHANGED <<config, scenario, persisted, file, now, pc, state, poll, updates,
                   max_update_id, earliest, sent, scrapes, leaked, abort, runs>>

\* ---------------------------------------------------- Command processor
\* getUpdates with this offset: the server drops the updates below the
\* offset (they are confirmed) and returns the others
Pending(offset) == {u \in inbox : u.update_id >= offset}

\* a failed poll treated as an empty batch: the offset is stored
AfterPollFailure_StoresOffset(st) ==
    [st EXCEPT !.last_update_id = PyInt(0)]

\* lines 142-144: the state after a failed poll
AfterPollFailure(st) == st

\* process_incoming_commands, lines 135-150
Poll ==
    /\ pc = "commands"
    /\ UNCHANGED <<config, scenario, persisted, file, nextId, now, earliest, sent, scrapes, leaked>>
    /\ IF state.kind # "dict"
       THEN \* state.get on a list, string or number: AttributeError
            /\ Raise("state_type")
            /\ UNCHANGED <<inbox, state, poll, updates, max_update_id>>
       ELSE LET last_update_id == Get(state.last_update_id, PyInt(0)) IN
            IF last_update_id.t # "int"
            THEN \* last_update_id + 1 raises inside the try block
                 /\ poll' = "failed"
                 /\ pc' = "heartbeat"
                 /\ state' = AfterPollFailure(state)
                 /\ UNCHANGED <<inbox, updates, max_update_id, abort, runs>>
            ELSE \/ \* tg_api raised
                    /\ poll' = "failed"
                    /\ pc' = "heartbeat"
                    /\ state' = AfterPollFailure(state)
                    /\ UNCHANGED <<inbox, updates, max_update_id, abort, runs>>
                 \/ \* tg_api returned
                    /\ inbox' = Pending(last_update_id.n + 1)
                    /\ UNCHANGED <<state, abort, runs>>
                    /\ IF Pending(last_update_id.n + 1) = {}
                       THEN /\ poll' = "empty"
                            /\ pc' = "heartbeat"
                            /\ UNCHANGED <<updates, max_update_id>>
                       ELSE /\ poll' = "batch"
                            /\ pc' = "loop"
                            /\ updates' \in Orderings(Pending(last_update_id.n + 1))
                            /\ max_update_id' = last_update_id.n

\* the id seen last instead of the largest
NextMaxUpdateId_LastSeen(m, u) == u.update_id

\* update_id of an update that has none
NoId == -1

\* u.get("update_id", default)
UpdateIdOr(u, default) == IF u.update_id = NoId THEN default ELSE u.update_id

\* line 152
NextMaxUpdateId(m, u) == Max(m, UpdateIdOr(u, m))

\* line 172
Note(date) ==
    IF date < MY_CURRENT_APPOINTMENT THEN "earlier" ELSE "not earlier"

\* lines 168-180: the reply to /check for a scrape that returned
CheckReply(chat_id, re, r) ==
    IF r.out = "none"
    THEN Message("noslots", chat_id, re, 0, "")
    ELSE Message("result", chat_id, re, r.n, Note(r.n))

\* lines 155-167: what the loop does with update u
Dispatch(u) ==
    IF u.msg = "none" THEN "skip"
    ELSE IF u.msg = "nochat" THEN "raise"
    ELSE IF TextOf(u.text) = <<>> THEN "skip"
    ELSE IF Lower(TextOf(u.text)) \in StartCommands THEN "start"
    ELSE IF Lower(TextOf(u.text)) \in CheckCommands THEN "check"
    ELSE "skip"

\* the command answered without running the scraper again
ScrapesAfterCommand_NoCall(n) == n

\* line 168: a check command calls check_for_appointments() itself
ScrapesAfterCommand(n) == n + 1

\* one iteration of the loop of lines 151-181
HandleUpdate ==
    /\ pc = "loop"
    /\ updates # <<>>
    /\ UNCHANGED <<config, scenario, persisted, file, inbox, nextId, now, state, poll, earliest>>
    /\ max_update_id' = NextMaxUpdateId(max_update_id, Head(updates))
    /\ LET u == Head(updates)
           chat_id == IntToStr(u.chat)
       IN
       CASE Dispatch(u) = "skip" ->
              /\ updates' = Tail(updates)
              /\ UNCHANGED <<pc, sent, scrapes, leaked, abort, runs>>
         [] Dispatch(u) = "raise" ->
              \* msg["chat"] raises KeyError
              /\ Raise("malformed")
              /\ UNCHANGED <<updates, sent, scrapes, leaked>>
         [] Dispatch(u) = "start" ->
              /\ updates' = Tail(updates)
              /\ sent' = sent \o SendTelegram(
                        chat_id, Message("hint", chat_id, u.update_id, 0, ""))
              /\ runs' = [runs EXCEPT ![ThisRun].cmds = @ \cup {u.update_id}]
              /\ UNCHANGED <<pc, scrapes, leaked, abort>>
         [] Dispatch(u) = "check" ->
              /\ scrapes' = ScrapesAfterCommand(scrapes)
              /\ \E r \in ScrapeResults :
                    IF r.out = "raise"
                    THEN /\ pc' = "aborted"
                         /\ abort' = "scrape"
                         /\ runs' = [runs EXCEPT
                                ![ThisRun].cmds = @ \cup {u.update_id}]
                         /\ leaked' = (r.launched /\ ~r.closed)
                         /\ UNCHANGED <<updates, sent>>
                    ELSE /\ updates' = Tail(updates)
                         /\ sent' = sent \o SendTelegram(
                                   chat_id, CheckReply(chat_id, u.update_id, r))
                         /\ runs' = [runs EXCEPT
                                ![ThisRun].cmds = @ \cup {u.update_id}]
                         /\ UNCHANGED <<pc, leaked, abort>>

\* line 183, after the loop
FinishCommands ==
    /\ pc = "loop"
    /\ updates = <<>>
    /\ state' = [state EXCEPT !.last_update_id = PyInt(max_update_id)]
    /\ pc' = "heartbeat"
    /\ UNCHANGED <<config, scenario, persisted, file, inbox, nextId, now, poll, updates,
                   max_update_id, earliest, sent, scrapes, leaked, abort, runs>>

\* ------------------------------------------------------------ Heartbeat
\* lines 113-125: whether the heartbeat is sent at local time tm
HeartbeatDue(chat_id, last_ping_date, tm) ==
    /\ chat_id # <<>>
    /\ ~PyEq(last_ping_date, PyString(IsoFormat(tm.day)))
    /\ InWindow(tm)

\* lines 116-127 when datetime.now() gives tm
HeartbeatAt(tm) ==
    /\ now' = tm
    /\ IF HeartbeatDue(DEFAULT_CHAT_ID, GetOrNone(state.last_ping_date), tm)
       THEN /\ sent' = sent \o SendTelegram(
                      DEFAULT_CHAT_ID,
                      Message("heartbeat", DEFAULT_CHAT_ID, 0, tm.day, ""))
            /\ state' = [state EXCEPT
                   !.last_ping_date = PyString(IsoFormat(tm.day))]
            /\ runs' = [runs EXCEPT ![ThisRun].hb = tm.day]
       ELSE UNCHANGED <<sent, state, runs>>

\* maybe_send_daily_heartbeat, lines 112-127
MaybeSendDailyHeartbeat ==
    /\ pc = "heartbeat"
    /\ \E tm \in Times : TimeKey(tm) >= TimeKey(now) /\ HeartbeatAt(tm)
    /\ pc' = "scrape"
    /\ UNCHANGED <<config, scenario, persisted, file, inbox, nextId, poll, updates,
                   max_update_id, earliest, scrapes, leaked, abort>>

\* main, line 199
ScheduledCheck ==
    /\ pc = "scrape"
    /\ scrapes' = scrapes + 1
    /\ \E r \in ScrapeResults :
          IF r.out = "raise"
          THEN /\ Raise("scrape")
               /\ leaked' = (r.launched /\ ~r.closed)
               /\ UNCHANGED earliest
          ELSE /\ earliest' = r
               /\ pc' = "alert"
               /\ UNCHANGED <<leaked, abort, runs>>
    /\ UNCHANGED <<config, scenario, persisted, file, inbox, nextId, now, state, poll,
                   updates, max_update_id, sent>>

\* any scraped date taken as earlier
IsEarlier_AnyDate(r) == r.out = "date"

\* the threshold itself counted as earlier
IsEarlier_Inclusive(r) == r.out = "date" /\ r.n <= MY_CURRENT_APPOINTMENT

\* line 200
IsEarlier(r) == r.out = "date" /\ r.n < MY_CURRENT_APPOINTMENT

\* the values compared without str()
IsNew_ByValue(date, last_notified) == ~PyEq(PyInt(date), last_notified)

\* line 202
IsNew(date, last_notified) == PyStr(PyInt(date)) # PyStr(last_notified)

\* main, lines 200-211
AlertDecision ==
    /\ pc = "alert"
    /\ IF IsEarlier(earliest)
          /\ IsNew(earliest.n, GetOrNone(state.last_notified_earliest))
       THEN /\ sent' = sent \o SendTelegram(
                      DEFAULT_CHAT_ID,
                      Message("alert", DEFAULT_CHAT_ID, 0, earliest.n, ""))
            /\ state' = [state EXCEPT !.last_notified_earliest = PyInt(earliest.n)]
       ELSE UNCHANGED <<sent, state>>
    /\ pc' = "save"
    /\ UNCHANGED <<config, scenario, persisted, file, inbox, nextId, now, poll, updates,
                   max_update_id, earliest, scrapes, leaked, abort, runs>>

\* save_state, lines 55-57: open() may fail (file untouched) and json.dump
\* may fail after open() truncated the file
SaveState ==
    /\ pc = "save"
    /\ \/ /\ file' = state
          /\ persisted' = state.last_update_id
          /\ pc' = "done"
          /\ UNCHANGED <<abort, runs>>
       \/ /\ file' \in {file, CorruptFile}
          /\ Raise("save")
          /\ UNCHANGED persisted
    /\ UNCHANGED <<config, scenario, inbox, nextId, now, state, poll, updates,
                   max_update_id, earliest, sent, scrapes, leaked>>

Next ==
    \/ StartRun
    \/ Arrive
    \/ Poll
    \/ HandleUpdate
    \/ FinishCommands
    \/ MaybeSendDailyHeartbeat
    \/ ScheduledCheck
    \/ AlertDecision
    \/ SaveState

Spec == Init /\ [][Next]_vars

\* the first invocation finds no state file
InitFresh == Init /\ file = AbsentFile

SpecFresh == InitFresh /\ [][Next]_vars

\* -------------------------------------------- one command-processing pass
\* what the server can hold when an invocation polls: updates with distinct
\* ids, of every shape
Inboxes ==
    UNION {{{UpdateOf(id, shapes[id]) : id \in ids} : shapes \in [ids -> UpdateShapes]} :
              ids \in SUBSET (1..MaxBatch)}

\* an invocation that has passed the credential check and loaded its state
InitBatch ==
    /\ BOT_TOKEN = <<"t">>
    /\ DEFAULT_CHAT_ID \in {<<>>, <<"1">>}
    /\ file \in InitFiles
    /\ inbox \in Inboxes
    /\ nextId = MaxBatch + 1
    /\ now = [day |-> 1, hour |-> HEARTBEAT_HOUR - 1, minute |-> 0]
    /\ pc = "commands"
    /\ state = LoadState(file)
    /\ poll = "none"
    /\ updates = <<>>
    /\ max_update_id = 0
    /\ earliest = NoResult
    /\ sent = <<>>
    /\ scrapes = 0
    /\ leaked = FALSE
    /\ abort = ""
    /\ runs = <<RunStarted>>
    /\ scenario = AnyPage
    /\ persisted = file.last_update_id

NextBatch ==
    \/ Poll
    \/ HandleUpdate
    \/ FinishCommands

SpecBatch == InitBatch /\ [][NextBatch]_vars

\* ------------------------------------- invocations on a fixed schedule
\* the time at which the scheduler starts this invocation: the first one
\* at the time of Init, each later one Interval minutes after the one before
ScheduledTime ==
    [day |-> now.day, hour |-> now.hour,
     minute |-> (now.minute % Interval) + (ThisRun - 1) * Interval]

\* maybe_send_daily_heartbeat, lines 112-127, in a scheduled invocation
HeartbeatOnSchedule ==
    /\ pc = "heartbeat"
    /\ HeartbeatAt(ScheduledTime)
    /\ pc' = "scrape"
    /\ UNCHANGED <<config, scenario, persisted, file, inbox, nextId, poll,
                   updates, max_update_id, earliest, scrapes, leaked, abort>>

\* credential and recipient configured; no heartbeat sent yet on day 2;
\* the first invocation starts in the first Interval minutes of the window
InitSchedule ==
    /\ BOT_TOKEN = <<"t">>
    /\ DEFAULT_CHAT_ID = <<"1">>
    /\ file \in {AbsentFile,
                  FileOf("dict", PyString(IsoFormat(1)), PyInt(0), Absent)}
    /\ inbox = {}
    /\ nextId = 1
    /\ \E phase \in 0..(Interval - 1) :
          now = [day |-> 2, hour |-> HEARTBEAT_HOUR, minute |-> phase]
    /\ pc = "idle"
    /\ state = Unloaded
    /\ poll = "none"
    /\ updates = <<>>
    /\ max_update_id = 0
    /\ earliest = NoResult
    /\ sent = <<>>
    /\ scrapes = 0
    /\ leaked = FALSE
    /\ abort = ""
    /\ runs = <<>>
    /\ scenario = AnyPage
    /\ persisted = file.last_update_id

NextSchedule ==
    \/ StartRun
    \/ Arrive
    \/ Poll
    \/ HandleUpdate
    \/ FinishCommands
    \/ HeartbeatOnSchedule
    \/ ScheduledCheck
    \/ AlertDecision
    \/ SaveState

SpecSchedule == InitSchedule /\ [][NextSchedule]_vars

\* ------------------------------------------------ one check of one page
\* main, line 199, on the page `scenario`
CheckPage ==
    /\ pc = "scrape"
    /\ scrapes' = scrapes + 1
    /\ LET r == CheckForAppointments(scenario) IN
          IF r.out = "raise"
          THEN /\ Raise("scrape")
               /\ leaked' = (r.launched /\ ~r.closed)
               /\ UNCHANGED earliest
          ELSE /\ earliest' = r
               /\ pc' = "alert"
               /\ UNCHANGED <<leaked, abort, runs>>
    /\ UNCHANGED <<config, scenario, persisted, file, inbox, nextId, now, state, poll,
                   updates, max_update_id, sent>>

\* an invocation about to make its scheduled check, on any page
InitScrape ==
    /\ BOT_TOKEN = <<"t">>
    /\ DEFAULT_CHAT_ID \in {<<>>, <<"1">>}
    /\ file = AbsentFile
    /\ inbox = {}
    /\ nextId = 1
    /\ now = [day |-> 1, hour |-> HEARTBEAT_HOUR - 1, minute |-> 0]
    /\ pc = "scrape"
    /\ state = LoadState(AbsentFile)
    /\ poll = "empty"
    /\ updates = <<>>
    /\ max_update_id = 0
    /\ earliest = NoResult
    /\ sent = <<>>
    /\ scrapes = 0
    /\ leaked = FALSE
    /\ abort = ""
    /\ runs = <<RunStarted>>
    /\ scenario \in Scenarios
    /\ persisted = file.last_update_id

NextScrape ==
    \/ CheckPage
    \/ AlertDecision

SpecScrape == InitScrape /\ [][NextScrape]_vars

\* ------------------------------------- invocations against any server
\* updates a server that ignores the offset can return: with no id, with
\* ids below, at and above a stored offset; without message or with a text
\* that is no command
AnyUpdates ==
    {UpdateOf(id, sh) :
        id \in {NoId} \cup (1..(MaxBatch + 1)),
        sh \in {x \in UpdateShapes :
                  \/ x.msg = "none"
                  \/ x.text = PyString(<<"h", "e", "l", "l", "o">>)}}

\* process_incoming_commands, lines 135-150, whatever getUpdates returns
PollAny ==
    /\ pc = "commands"
    /\ state.kind = "dict"
    /\ UNCHANGED <<config, scenario, persisted, file, inbox, nextId, now,
                   earliest, sent, scrapes, leaked, abort, runs>>
    /\ LET last_update_id == Get(state.last_update_id, PyInt(0)) IN
       \/ \* tg_api (or last_update_id + 1) raised
          /\ poll' = "failed"
          /\ pc' = "heartbeat"
          /\ state' = AfterPollFailure(state)
          /\ UNCHANGED <<updates, max_update_id>>
       \/ \* tg_api returned
          /\ last_update_id.t = "int"
          /\ \E batch \in SeqsUpTo(AnyUpdates, MaxBatch) :
                IF batch = <<>>
                THEN /\ poll' = "empty"
                     /\ pc' = "heartbeat"
                     /\ UNCHANGED <<state, updates, max_update_id>>
                ELSE /\ poll' = "batch"
                     /\ pc' = "loop"
                     /\ updates' = batch
                     /\ max_update_id' = last_update_id.n
                     /\ UNCHANGED state

\* a record an earlier invocation left, with a stored offset, or no file;
\* no default recipient
InitOffsets ==
    /\ BOT_TOKEN = <<"t">>
    /\ DEFAULT_CHAT_ID = <<>>
    /\ file \in {AbsentFile, FileOf("dict", Absent, PyInt(MaxBatch), Absent)}
    /\ inbox = {}
    /\ nextId = 1
    /\ now = [day |-> 1, hour |-> HEARTBEAT_HOUR - 1, minute |-> 0]
    /\ pc = "idle"
    /\ state = Unloaded
    /\ poll = "none"
    /\ updates = <<>>
    /\ max_update_id = 0
    /\ earliest = NoResult
    /\ sent = <<>>
    /\ scrapes = 0
    /\ leaked = FALSE
    /\ abort = ""
    /\ runs = <<>>
    /\ scenario = AnyPage
    /\ persisted = file.last_update_id

NextOffsets ==
    \/ StartRun
    \/ PollAny
    \/ HandleUpdate
    \/ FinishCommands
    \/ MaybeSendDailyHeartbeat
    \/ ScheduledCheck
    \/ AlertDecision
    \/ SaveState

SpecOffsets == InitOffsets /\ [][NextOffsets]_vars

\* ------------------------------------------------------------ properties
\* the record load_state() gave the running invocation (the file is only
\* written by save_state, the invocation's last step)
Loaded == LoadState(file)

HasSent(kind) == \E i \in 1..Len(sent) : sent[i].kind = kind

SetMax(S) == CHOOSE x \in S : \A y \in S : x >= y

\* main's scrape returned a date strictly earlier than the threshold
ScrapedEarlier == earliest.out = "date" /\ earliest.n < MY_CURRENT_APPOINTMENT

\* str(d) of the scraped date differs from str() of the stored value
DiffersFromStored ==
    IntToStr(earliest.n) # PyStr(GetOrNone(Loaded.last_notified_earliest))

\* C1: after the alert decision of a run whose scrape returned a date
\* earlier than the threshold, an alert was sent iff str(date) differs from
\* str(last_notified_earliest as loaded) and a default recipient is
\* configured; an equal date leaves last_notified_earliest alone and a
\* different one is stored.
C1_AlertDeduplication ==
    (pc = "save" /\ ScrapedEarlier) =>
        /\ HasSent("alert") <=> (DiffersFromStored /\ DEFAULT_CHAT_ID # <<>>)
        /\ ~DiffersFromStored =>
              state.last_notified_earliest = Loaded.last_notified_earliest
        /\ DiffersFromStored =>
              state.last_notified_earliest = PyInt(earliest.n)

\* the stored value is the string of the scraped date: no alert
C1_Witness ==
    /\ pc = "save"
    /\ ScrapedEarlier
    /\ DEFAULT_CHAT_ID # <<>>
    /\ Loaded.last_notified_earliest = PyString(IntToStr(earliest.n))
    /\ ~HasSent("alert")

\* C2: an alert is sent only for a scraped date strictly below the
\* threshold; when the scrape gave none or a date at or above the threshold
\* no alert is sent and last_notified_earliest keeps its loaded value.
C2_ThresholdRule ==
    pc = "save" =>
        /\ HasSent("alert") => ScrapedEarlier
        /\ ~ScrapedEarlier =>
              /\ ~HasSent("alert")
              /\ state.last_notified_earliest = Loaded.last_notified_earliest

\* the scrape returned exactly the threshold and nothing was sent or stored
C2_Witness ==
    /\ pc = "save"
    /\ earliest = DateResult(MY_CURRENT_APPOINTMENT)
    /\ DEFAULT_CHAT_ID # <<>>
    /\ IsNew(earliest.n, GetOrNone(Loaded.last_notified_earliest))
    /\ ~HasSent("alert")

\* C3: no two invocations send a heartbeat for the same local date.
C3_HeartbeatOncePerDate ==
    \A i, j \in 1..Len(runs) :
        (i < j /\ runs[i].hb # 0) => runs[j].hb # runs[i].hb

\* C4: no update id is dispatched to a command in more than one invocation.
C4_UpdateDispatchedOnce ==
    \A i, j \in 1..Len(runs) : i < j => runs[i].cmds \cap runs[j].cmds = {}

\* C5: when process_incoming_commands returns after a non-empty batch,
\* state.last_update_id is the maximum of the prior last_update_id and the
\* ids of the batch, whatever the order of the batch.
C5_OffsetIsBatchMaximum ==
    (pc = "heartbeat" /\ poll = "batch") =>
        state.last_update_id =
            PyInt(SetMax({Get(Loaded.last_update_id, PyInt(0)).n}
                             \cup {u.update_id : u \in inbox}))

\* a batch answered out of id order
C5_Witness ==
    /\ pc = "heartbeat"
    /\ poll = "batch"
    /\ \E i, j \in 1..Len(sent) : i < j /\ sent[i].re > sent[j].re

\* C6: when the poll failed, process_incoming_commands returns with the
\* state as loaded, no message sent, no command dispatched and no scrape
\* run, and the record to be saved carries the loaded last_update_id.
C6_PollFailureLeavesState ==
    poll = "failed" =>
        /\ pc = "heartbeat" =>
              /\ state = Loaded
              /\ sent = <<>>
              /\ scrapes = 0
        /\ runs[ThisRun].cmds = {}
        /\ pc \in {"heartbeat", "scrape", "alert", "save"} =>
              state.last_update_id = Loaded.last_update_id

\* the poll failed while a command was waiting on the server
C6_Witness ==
    /\ pc = "heartbeat"
    /\ poll = "failed"
    /\ \E u \in inbox : Dispatch(u) = "check"
    /\ state.last_update_id.t = "int"

\* C7: an invocation raises only for a missing credential or a failed save.
C7_OnlyTwoFatalConditions == abort \in {"", "credential", "save"}

\* C8: check_for_appointments never raises.
C8_ScraperNeverRaises == abort # "scrape"

\* C9: whatever the state file holds, the steps after load_state run
\* without raising on the loaded record.
C9_LoadedStateUsable == abort # "state_type"

\* C10: when maybe_send_daily_heartbeat returns and no default recipient is
\* configured, or the hour is not the heartbeat hour, or the minute is at
\* or past the window width, no heartbeat was sent and last_ping_date is as
\* loaded.
C10_HeartbeatNoOp ==
    ( /\ pc = "scrape"
      /\ \/ DEFAULT_CHAT_ID = <<>>
         \/ now.hour # HEARTBEAT_HOUR
         \/ now.minute >= HEARTBEAT_WINDOW_MINUTES ) =>
        /\ ~HasSent("heartbeat")
        /\ state.last_ping_date = Loaded.last_ping_date

\* first minute past the window, recipient configured, nothing sent today
C10_Witness ==
    /\ pc = "scrape"
    /\ DEFAULT_CHAT_ID # <<>>
    /\ now.hour = HEARTBEAT_HOUR
    /\ now.minute = HEARTBEAT_WINDOW_MINUTES
    /\ ~PyEq(GetOrNone(Loaded.last_ping_date), PyString(IsoFormat(now.day)))
    /\ ~HasSent("heartbeat")

\* replies of this invocation to check/status commands
CheckReplies == {i \in 1..Len(sent) : sent[i].kind \in {"noslots", "result"}}

C13_NotifiedOnlyIfAlerted ==
    (pc = "save" /\ state.last_notified_earliest # Loaded.last_notified_earliest) =>
        \E i \in 1..Len(sent) :
            /\ sent[i].kind = "alert"
            /\ sent[i].to = DEFAULT_CHAT_ID
            /\ PyInt(sent[i].date) = state.last_notified_earliest

\* replies of this invocation to update u
RepliesTo(u) == {i \in 1..Len(sent) : sent[i].re = u.update_id}

\* C14: when the command pass over a batch is over, every message of the
\* batch with non-empty text has, by its trimmed lower-cased text: exactly
\* one usage hint for a start command; exactly one reply for a check
\* command, the no-slots text or a result whose verdict is "earlier" iff
\* the scraped date is below the threshold; no reply for any other text.
\* Every reply goes to the chat of its message.
C14_CommandDispatch ==
    (poll = "batch" /\ pc \in {"heartbeat", "aborted"}) =>
        \A u \in inbox :
            (u.msg # "none" /\ TextOf(u.text) # <<>>) =>
                /\ \A i \in RepliesTo(u) : sent[i].to = IntToStr(u.chat)
                /\ Lower(TextOf(u.text)) \in StartCommands =>
                      /\ Cardinality(RepliesTo(u)) = 1
                      /\ \A i \in RepliesTo(u) : sent[i].kind = "hint"
                /\ Lower(TextOf(u.text)) \in CheckCommands =>
                      /\ Cardinality(RepliesTo(u)) = 1
                      /\ \A i \in RepliesTo(u) :
                            \/ sent[i].kind = "noslots"
                            \/ /\ sent[i].kind = "result"
                               /\ sent[i].note = "earlier"
                                     <=> sent[i].date < MY_CURRENT_APPOINTMENT
                /\ Lower(TextOf(u.text)) \notin StartCommands \cup CheckCommands =>
                      RepliesTo(u) = {}

\* the date inputs whose value is a non-empty string of decimal digits
Numeric(values) ==
    {k \in 1..Len(values) : values[k].t = "str" /\ IntParses(values[k].s)}

\* C15: on a page that shows the slot form, check_for_appointments returns
\* the minimum of the values that are non-empty decimal digit strings,
\* whatever the other values are, and none when there is no such value.
C15_MinimumOfNumericValues ==
    (pc = "alert" /\ scenario.fail = "none") =>
        earliest =
            IF Numeric(scenario.values) = {} THEN NoneResult
            ELSE DateResult(SetMin(
                     {StrToNat(scenario.values[k].s) : k \in Numeric(scenario.values)}))

\* C16: with an empty credential every invocation raises at once: no
\* state is loaded, nothing is polled, sent or scraped, the server keeps
\* every update and the state file is never written.
C16_MissingCredentialFatal ==
    /\ [](BOT_TOKEN = <<>> =>
            /\ pc \in {"idle", "aborted"}
            /\ abort \in {"", "credential"}
            /\ state = Unloaded
            /\ poll = "none"
            /\ sent = <<>>
            /\ scrapes = 0)
    /\ [][BOT_TOKEN = <<>> => (file' = file /\ inbox \subseteq inbox')]_vars

\* a second invocation without credential, with a recipient, a state
\* record on disk and a command waiting on the server
C16_Witness ==
    /\ BOT_TOKEN = <<>>
    /\ DEFAULT_CHAT_ID # <<>>
    /\ pc = "aborted"
    /\ abort = "credential"
    /\ Len(runs) = 2
    /\ file.kind = "dict"
    /\ \E u \in inbox : Dispatch(u) = "check"

\* C17: an invocation that passed the credential check loads the state
\* first, then goes through command processing, heartbeat, scrape and alert
\* decision in this order and ends with save_state; the record changes only
\* before save_state and the file only in save_state.
C17_OrderAndSingleWrite ==
    [][/\ pc' = "commands" => state' = LoadState(file)
       /\ pc \in {"commands", "loop"} => pc' \in {"loop", "heartbeat"}
       /\ pc = "heartbeat" => pc' = "scrape"
       /\ pc = "scrape" => pc' = "alert"
       /\ pc = "alert" => pc' = "save"
       /\ pc = "save" => (pc' = "done" \/ abort' = "save")
       /\ pc = "save" => state' = state
       /\ file' # file => (pc = "save" /\ (pc' = "done" => file' = state))
      ]_<<pc, state, file>>

\* C18: once check_for_appointments has launched a browser, it has called
\* browser.close() by the time it is left, whichever step failed.
C18_BrowserAlwaysClosed ==
    (scrapes > 0 /\ scenario.fail # "launch") => ~leaked

\* the offset a stored last_update_id stands for (line 135: 0 when missing)
OffsetOf(v) == Get(v, PyInt(0))

\* C19: the last_update_id a completed invocation stores is not lower than
\* the one the completed invocation before it stored.
C19_PersistedOffsetMonotonic ==
    [][(pc = "save" /\ pc' = "done" /\ OffsetOf(persisted).t = "int") =>
          /\ OffsetOf(file'.last_update_id).t = "int"
          /\ OffsetOf(file'.last_update_id).n >= OffsetOf(persisted).n]_vars

\* a last_notified_earliest the program may have written: none yet, or a
\* date below the threshold
BelowThreshold(v) ==
    v.t = "absent" \/ (v.t = "int" /\ v.n < MY_CURRENT_APPOINTMENT)

Alerts == {i \in 1..Len(sent) : sent[i].kind = "alert"}

\* C20: when the state file starts absent, last_notified_earliest in the
\* record and in the file is always a date below the threshold (or not
\* set), every alert carries a date below the threshold and an invocation
\* sends at most one alert.
C20_NotifiedBelowThreshold ==
    /\ BelowThreshold(state.last_notified_earliest)
    /\ BelowThreshold(file.last_notified_earliest)
    /\ \A i \in Alerts : sent[i].date < MY_CURRENT_APPOINTMENT
    /\ Cardinality(Alerts) <= 1

\* a second invocation, with a check command in its batch, has alerted for
\* the day before the threshold and stored it
C20_Witness ==
    /\ pc = "done"
    /\ Len(runs) = 2
    /\ Alerts # {}
    /\ Loaded.last_notified_earliest = PyInt(MY_CURRENT_APPOINTMENT - 1)
    /\ \E u \in inbox : Dispatch(u) = "check"

\* invocations that sent a heartbeat for the given day
HeartbeatRuns(day) == {i \in 1..Len(runs) : runs[i].hb = day}

\* C11: with a default recipient and invocations every Interval minutes,
\* Interval shorter than the window, once two invocations that started in
\* the window have ended exactly one heartbeat was sent for that day.
C11_ExactlyOneHeartbeatPerDay ==
    ( /\ Interval < HEARTBEAT_WINDOW_MINUTES
      /\ Len(runs) >= 2
      /\ pc \in {"done", "aborted"} ) =>
        Cardinality(HeartbeatRuns(now.day)) = 1

====
